---- MODULE Spec2Model ----
(***************************************************************************)
(* Model of tchaik's realtime control plane:                               *)
(*   - the client-side playlist store (PlaylistStore.js: buildPlaylistItem,*)
(*     reset, next, prev, canNext, canPrev, remove, setCurrent and the     *)
(*     dispatcher that calls them), specification Spec;                    *)
(*   - the per-connection command loop of websocket.go (Handle, key) with  *)
(*     the shared player registry, specification SpecConn;                 *)
(*   - the same loop step by step (receive, the case of the switch, send)  *)
(*     with the handlers of websocket.go: specification SpecLoop for every *)
(*     kind of command, SpecStore for the PLAYLIST and CURSOR commands of  *)
(*     two connections on the shared stores, SpecSearch for SEARCH.        *)
(* Item and track indices are 0-based as in the source; TLA+ sequences are *)
(* 1-based, so items[i] of the source is items[i + 1] here.                *)
(***************************************************************************)
EXTENDS Integers, Sequences, FiniteSets, TLC

VARIABLES
    items,        \* _playlistItems: the array of playlist items
    current,      \* _playlistCurrent: <<>> for null, <<[item, track, path]>> otherwise
    action,       \* payload.action of the dispatch handled last
    errorLogged,  \* whether the handler of that dispatch called console.error
    removes,      \* number of REMOVE dispatches so far (bounded by MaxRemoves)
    players,      \* player.Players: key -> connection whose player is bound to it
    loop,         \* per connection: position of Handle ("running" or "done")
    playerKey,    \* per connection: h.playerKey
    deferredKey,  \* per connection: the argument the defer statement of Handle saved
    err,          \* per connection: the err of Handle ("nil" while there is none)
    cmd,          \* per connection: the Command c of the loop's current iteration
    resp,         \* per connection: resp of the iteration, <<>> for nil
    written,      \* per connection: the Responses the loop has sent since its last Receive
    pushed,       \* per connection: the message a player's repFn sent last on its socket
    searcher,     \* per connection: h.searcher ([paths, same], and whether Search has run)
    meta,         \* h.meta.history, .favourites, .checklist: the Paths each holds
    playlists,    \* h.meta.playlists: the RepActions applied to it, in order
    cursors       \* h.meta.cursors: the RepActions applied to it, in order

vars == <<items, current, action, errorLogged, removes,
          players, loop, playerKey, deferredKey, err,
          cmd, resp, written, pushed, searcher, meta, playlists, cursors>>

storeVars == <<items, current, action, errorLogged, removes>>
loopVars == <<cmd, resp, written, pushed, searcher, meta, playlists, cursors>>
connVars == <<players, loop, playerKey, deferredKey, err,
              cmd, resp, written, pushed, searcher, meta, playlists, cursors>>

----------------------------------------------------------------------------
(* Bounds of the model. *)

MaxItems == 2
MaxRemoves == 1
\* RepActions applied to the playlist and cursor stores together
MaxMutations == 2
\* Paths in the result of one search
MaxResults == 2

----------------------------------------------------------------------------
(* Keys and Paths.  A Key is a string; the track indices 0, 1, ... that    *)
(* buildPlaylistItem generates are the Keys "0", "1", ... (JavaScript      *)
(* compares path elements with != and joins them into strings, so a number *)
(* and its decimal string are the same Key).                               *)

NULL == <<>>

\* JavaScript's undefined, where it ends up as a path or as a path element.
UndefinedKey == "undefined"
Undefined == <<UndefinedKey>>

\* The Key of track index i (Array.prototype.map's index argument).
TrackKey(i) == CASE i = 0 -> "0" [] i = 1 -> "1" [] i = 2 -> "2"

\* CollectionStore.pathToKey: the keys of the path joined by a separator
\* (Array.prototype.join renders undefined as the empty string).
RECURSIVE pathToKey(_)
pathToKey(path) ==
    IF path = <<>> THEN ""
    ELSE LET k == IF path[1] = UndefinedKey THEN "" ELSE path[1]
         IN  IF Len(path) = 1 THEN k ELSE k \o ":" \o pathToKey(Tail(path))

\* The catalog (CollectionStore.getCollection): an internal node has Groups,
\* a leaf has Tracks.
\*   R -+- X -+- A (tracks 0, 1)
\*      |     +- B (track 0)
\*      +- L (track 0)
\* and, apart from it, a collection E with a child N that has neither Groups
\* nor Tracks:
\*   E -+- N
\*      +- M (track 0)
CatalogPaths ==
    { <<"R">>, <<"R", "X">>, <<"R", "L">>, <<"R", "X", "A">>, <<"R", "X", "B">> }

getCollection(path) ==
    CASE path = <<"R">>           -> [Groups |-> <<"X", "L">>, Tracks |-> NULL, isGroup |-> TRUE, isTracks |-> FALSE]
      [] path = <<"R", "X">>      -> [Groups |-> <<"A", "B">>, Tracks |-> NULL, isGroup |-> TRUE, isTracks |-> FALSE]
      [] path = <<"R", "L">>      -> [Groups |-> NULL, Tracks |-> <<"l0">>, isGroup |-> FALSE, isTracks |-> TRUE]
      [] path = <<"R", "X", "A">> -> [Groups |-> NULL, Tracks |-> <<"a0", "a1">>, isGroup |-> FALSE, isTracks |-> TRUE]
      [] path = <<"R", "X", "B">> -> [Groups |-> NULL, Tracks |-> <<"b0">>, isGroup |-> FALSE, isTracks |-> TRUE]
      [] path = <<"E">>           -> [Groups |-> <<"N", "M">>, Tracks |-> NULL, isGroup |-> TRUE, isTracks |-> FALSE]
      [] path = <<"E", "N">>      -> [Groups |-> NULL, Tracks |-> NULL, isGroup |-> FALSE, isTracks |-> FALSE]
      [] path = <<"E", "M">>      -> [Groups |-> NULL, Tracks |-> <<"m0">>, isGroup |-> FALSE, isTracks |-> TRUE]

\* The full paths of the catalog's tracks.
CatalogTrackPaths ==
    UNION { { p \o <<TrackKey(i - 1)>> : i \in 1..Len(getCollection(p).Tracks) } :
            p \in { q \in CatalogPaths : ~getCollection(q).isGroup } }

----------------------------------------------------------------------------
(* buildPlaylistItem: breadth-first expansion of a root path.              *)

\* var x = {}: an object without properties; each of them reads as undefined.
EmptyObject == [type |-> UndefinedKey, keys |-> Undefined]

\* data[key] = x
SetData(data, key, x) ==
    [k \in (DOMAIN data) \cup {key} |-> IF k = key THEN x ELSE data[k]]

\* The loop with the children of a node put at the front of the queue
\* (queue.unshift instead of queue.push): a depth-first expansion.
RECURSIVE BuildLoopDepthFirst(_, _, _, _, _)
BuildLoopDepthFirst(root, queue, paths, data, tracks) ==
    IF queue = <<>>
    THEN [root |-> root, paths |-> paths, data |-> data, tracks |-> tracks]
    ELSE LET p == Head(queue)
             rp == root \o p
             c == getCollection(rp)
         IN  IF c.isGroup
             THEN BuildLoopDepthFirst(root,
                            [i \in 1..Len(c.Groups) |-> p \o <<c.Groups[i]>>] \o Tail(queue),
                            Append(paths, p),
                            SetData(data, pathToKey(rp),
                                    [type |-> "TYPE_GROUP", keys |-> c.Groups]),
                            tracks)
             ELSE IF c.isTracks
             THEN BuildLoopDepthFirst(root,
                            Tail(queue),
                            Append(paths, p),
                            SetData(data, pathToKey(rp),
                                    [type |-> "TYPE_TRACKS",
                                     keys |-> [i \in 1..Len(c.Tracks) |-> TrackKey(i - 1)]]),
                            tracks \o [i \in 1..Len(c.Tracks) |-> p \o <<TrackKey(i - 1)>>])
             ELSE BuildLoopDepthFirst(root, Tail(queue), Append(paths, p),
                            SetData(data, pathToKey(rp), EmptyObject), tracks)

\* One run of the while loop over the queue, to its end.
RECURSIVE BuildLoop(_, _, _, _, _)
BuildLoop(root, queue, paths, data, tracks) ==
    IF queue = <<>>
    THEN [root |-> root, paths |-> paths, data |-> data, tracks |-> tracks]
    ELSE LET p == Head(queue)
             rp == root \o p
             c == getCollection(rp)
         IN  IF c.isGroup
             THEN \* c.Groups.map(getGroupKey(p)): each child is enqueued
                  BuildLoop(root,
                            Tail(queue) \o [i \in 1..Len(c.Groups) |-> p \o <<c.Groups[i]>>],
                            Append(paths, p),
                            SetData(data, pathToKey(rp),
                                    [type |-> "TYPE_GROUP", keys |-> c.Groups]),
                            tracks)
             ELSE IF c.isTracks
             THEN \* c.Tracks.map(getTrackKey(p)): each track is appended
                  BuildLoop(root,
                            Tail(queue),
                            Append(paths, p),
                            SetData(data, pathToKey(rp),
                                    [type |-> "TYPE_TRACKS",
                                     keys |-> [i \in 1..Len(c.Tracks) |-> TrackKey(i - 1)]]),
                            tracks \o [i \in 1..Len(c.Tracks) |-> p \o <<TrackKey(i - 1)>>])
             ELSE \* neither: console.error, x stays {}, and the loop goes on
                  BuildLoop(root, Tail(queue), Append(paths, p),
                            SetData(data, pathToKey(rp), EmptyObject), tracks)

\* Whether the loop called console.error: it did for each node it stored {} for.
buildLogsError(item) == \E k \in DOMAIN item.data : item.data[k] = EmptyObject

buildPlaylistItem(root) ==
    BuildLoop(root, << <<>> >>, <<>>, [k \in {} |-> NULL], <<>>)

----------------------------------------------------------------------------
(* The current position: reset, next, prev, canPrev, canNext, setCurrent.  *)
(* Each takes the items and the current position and yields the position   *)
(* that setPlaylistCurrent stores.                                          *)

\* array[i] of JavaScript: undefined outside the array.
At(array, i) == IF i >= 0 /\ i < Len(array) THEN array[i + 1] ELSE Undefined

\* a.concat(b), where b is a path or undefined
Concat(a, b) == a \o b

reset(its) ==
    IF Len(its) > 0
    THEN << [item |-> 0, track |-> 0, path |-> At(its[1].tracks, 0)] >>
    ELSE NULL

\* next with a wraparound at the end of the playlist.
nextWraps(its, cur) ==
    IF cur = NULL THEN reset(its)
    ELSE LET c == cur[1]
             item == its[c.item + 1]
         IN  IF c.track + 1 < Len(item.tracks)
             THEN << [item |-> c.item, track |-> c.track + 1,
                      path |-> Concat(item.root, At(item.tracks, c.track + 1))] >>
             ELSE IF c.item + 1 < Len(its)
             THEN << [item |-> c.item + 1, track |-> 0,
                      path |-> Concat(its[c.item + 2].root, At(its[c.item + 2].tracks, 0))] >>
             ELSE reset(its)

next(its, cur) ==
    IF cur = NULL THEN reset(its)
    ELSE LET c == cur[1]
             item == its[c.item + 1]
             tracks == item.tracks
         IN  IF c.track + 1 < Len(tracks)
             THEN << [item |-> c.item, track |-> c.track + 1,
                      path |-> Concat(item.root, At(tracks, c.track + 1))] >>
             ELSE IF c.item + 1 < Len(its)
             THEN LET item2 == its[c.item + 2]
                  IN  << [item |-> c.item + 1, track |-> 0,
                          path |-> Concat(item2.root, At(item2.tracks, 0))] >>
             ELSE NULL

prev(its, cur) ==
    IF cur = NULL THEN reset(its)
    ELSE LET c == cur[1]
             item == its[c.item + 1]
             tracks == item.tracks
         IN  IF c.track > 0
             THEN << [item |-> c.item, track |-> c.track - 1,
                      path |-> Concat(item.root, At(tracks, c.track - 1))] >>
             ELSE IF c.item > 0
             THEN LET item2 == its[c.item]
                      t == Len(item2.tracks) - 1
                  IN  << [item |-> c.item - 1, track |-> t,
                          path |-> Concat(item2.root, At(item2.tracks, t))] >>
             ELSE cur

\* canPrev that looks at the track index alone.
canPrevTrackOnly(its, cur) ==
    IF cur = NULL THEN FALSE
    ELSE cur[1].track > 0

canPrev(its, cur) ==
    IF cur = NULL THEN FALSE
    ELSE (cur[1].track > 0) \/ (cur[1].item > 0)

\* canNext with the comparison of the track index off by one.
canNextOffByOne(its, cur) ==
    IF cur = NULL THEN FALSE
    ELSE LET tracks == its[cur[1].item + 1].tracks
         IN  (cur[1].track < Len(tracks)) \/ (cur[1].item < Len(its) - 1)

canNext(its, cur) ==
    IF cur = NULL THEN FALSE
    ELSE LET tracks == its[cur[1].item + 1].tracks
         IN  (cur[1].track < Len(tracks) - 1) \/ (cur[1].item < Len(its) - 1)

\* The index the scan of setCurrent finds, or -1.
RECURSIVE FindTrack(_, _, _)
FindTrack(item, key, i) ==
    IF i >= Len(item.tracks) THEN 0 - 1
    ELSE IF pathToKey(Concat(item.root, item.tracks[i + 1])) = key THEN i
    ELSE FindTrack(item, key, i + 1)

setCurrent(its, cur, itemIndex, path) ==
    LET item == its[itemIndex + 1]
        track == FindTrack(item, pathToKey(path), 0)
    IN  << [item |-> itemIndex, track |-> track, path |-> path] >>

\* Whether setCurrent calls console.error.
setCurrentError(its, itemIndex, path) ==
    FindTrack(its[itemIndex + 1], pathToKey(path), 0) = 0 - 1

----------------------------------------------------------------------------
(* remove(itemIndex, path) and its local functions.                        *)

_isPathPrefix(path, prefix) ==
    IF Len(prefix) > Len(path) THEN FALSE
    ELSE \A i \in 1..Len(prefix) : path[i] = prefix[i]

_pathsEqual(p1, p2) == (Len(p1) = Len(p2)) /\ _isPathPrefix(p1, p2)

\* The tracks left after the splice loop.
_removeTracks(tracks, path) ==
    SelectSeq(tracks, LAMBDA t : ~_isPathPrefix(t, path))

\* The paths left, and the data left after delete data[pathToKey(paths[i])].
_removePathsPaths(paths, path) ==
    SelectSeq(paths, LAMBDA q : ~_isPathPrefix(q, path))

_removePathsData(paths, data, path) ==
    LET gone == { pathToKey(paths[i]) : i \in { j \in 1..Len(paths) : _isPathPrefix(paths[j], path) } }
    IN  [k \in (DOMAIN data) \ gone |-> data[k]]

\* items.splice(itemIndex): without a count, everything from itemIndex on goes.
_removeItemToEnd(its, itemIndex) == SubSeq(its, 1, itemIndex)

\* items.splice(itemIndex, 1)
_removeItem(its, itemIndex) ==
    [i \in 1..(Len(its) - 1) |-> IF i < itemIndex + 1 THEN its[i] ELSE its[i + 1]]

\* keys.indexOf(last): 0-based, -1 when absent.
RECURSIVE IndexOfFrom(_, _, _)
IndexOfFrom(keys, last, i) ==
    IF i >= Len(keys) THEN 0 - 1
    ELSE IF keys[i + 1] = last THEN i
    ELSE IndexOfFrom(keys, last, i + 1)

indexOf(keys, last) == IndexOfFrom(keys, last, 0)

\* keys.splice(start, 1): a negative start counts from the end of the array.
Splice1(keys, start) ==
    LET s == IF start < 0 THEN (IF Len(keys) + start < 0 THEN 0 ELSE Len(keys) + start)
             ELSE start
    IN  IF s >= Len(keys) THEN keys
        ELSE [i \in 1..(Len(keys) - 1) |-> IF i < s + 1 THEN keys[i] ELSE keys[i + 1]]

\* items with items[itemIndex] replaced (the item is mutated in place).
WithItem(its, itemIndex, item) ==
    [i \in 1..Len(its) |-> IF i = itemIndex + 1 THEN item ELSE its[i]]

\* The do-while loop of remove, from one evaluation of its body to its end:
\* the items it leaves.
RECURSIVE RemoveLoop(_, _, _)
RemoveLoop(its, itemIndex, path) ==
    LET item == its[itemIndex + 1]
    IN  IF _pathsEqual(path, item.root)
        THEN _removeItem(its, itemIndex)
        ELSE LET tracks1 == _removeTracks(item.tracks, path)
                 paths1 == _removePathsPaths(item.paths, path)
                 data1 == _removePathsData(item.paths, item.data, path)
                 \* var last = path.pop();
                 last == IF path = <<>> THEN UndefinedKey ELSE path[Len(path)]
                 path1 == IF path = <<>> THEN path ELSE SubSeq(path, 1, Len(path) - 1)
                 key == pathToKey(path1)
                 item1 == [item EXCEPT !.tracks = tracks1, !.paths = paths1, !.data = data1]
             IN  \* if (!data || !data.keys) break;
                 IF key \notin DOMAIN data1 \/ data1[key].keys = Undefined
                 THEN WithItem(its, itemIndex, item1)
                 ELSE LET keys1 == Splice1(data1[key].keys, indexOf(data1[key].keys, last))
                          item2 == [item1 EXCEPT !.data[key].keys = keys1]
                          its2 == WithItem(its, itemIndex, item2)
                      IN  IF Len(keys1) = 0 /\ Len(path1) > 1
                          THEN RemoveLoop(its2, itemIndex, path1)
                          ELSE its2

remove(its, itemIndex, path) == RemoveLoop(its, itemIndex, path)

----------------------------------------------------------------------------
(* The dispatcher of the playlist store: one action per VIEW_ACTION.       *)

\* Paths a REMOVE is dispatched with: the full paths of the catalog's nodes
\* and of two of its tracks, a path under the root that names nothing, and
\* two paths relative to an item's root.
RemovePaths ==
    CatalogPaths
    \cup { <<"R", "L", "0">>, <<"R", "X", "A", "0">> }
    \cup { <<"R", "X", "Z">> }
    \cup { <<"L">>, <<"0">> }

\* Paths a PLAY_ITEM is dispatched with: the full paths of two tracks of the
\* catalog and a path that names nothing.
PlayPaths == { <<"R", "X", "A", "1">>, <<"R", "L", "0">>, <<"R", "X", "Z">> }

\* Root paths an APPEND_TO_PLAYLIST or a PLAY_NOW is dispatched with: a root
\* of one Key, an internal node and a leaf.
RootPaths == { <<"R">>, <<"R", "X">>, <<"R", "L">> }

\* The same with the roots whose expansion meets the node without Groups and
\* without Tracks: its parent and the node itself.
RootPathsOfE == RootPaths \cup { <<"E">>, <<"E", "N">> }

NoAction == [actionType |-> "NONE", itemIndex |-> 0, path |-> <<>>]

\* case PlaylistConstants.NEXT (and NowPlayingConstants.ENDED, CTRL NEXT)
DispatchNext ==
    /\ current' = next(items, current)
    /\ action' = [actionType |-> "NEXT", itemIndex |-> 0, path |-> <<>>]
    /\ errorLogged' = FALSE
    /\ UNCHANGED <<items, removes>>

\* case PlaylistConstants.PREV (and CTRL PREV)
DispatchPrev ==
    /\ current' = prev(items, current)
    /\ action' = [actionType |-> "PREV", itemIndex |-> 0, path |-> <<>>]
    /\ errorLogged' = FALSE
    /\ UNCHANGED <<items, removes>>

\* REMOVE with remove() returning, instead of breaking out of its loop, once
\* it has deleted the whole item: setPlaylistCurrent(null) is skipped.
DispatchRemoveReturnsEarly(itemIndex, path) ==
    /\ removes < MaxRemoves
    /\ items' = remove(items, itemIndex, path)
    /\ current' = IF _pathsEqual(path, items[itemIndex + 1].root) THEN current ELSE NULL
    /\ action' = [actionType |-> "REMOVE", itemIndex |-> itemIndex, path |-> path]
    /\ errorLogged' = FALSE
    /\ removes' = removes + 1

\* case PlaylistConstants.REMOVE
DispatchRemove(itemIndex, path) ==
    /\ removes < MaxRemoves
    /\ items' = remove(items, itemIndex, path)
    /\ current' = NULL
    /\ action' = [actionType |-> "REMOVE", itemIndex |-> itemIndex, path |-> path]
    /\ errorLogged' = FALSE
    /\ removes' = removes + 1

\* case CollectionConstants.APPEND_TO_PLAYLIST
DispatchAppend(path) ==
    /\ Len(items) < MaxItems
    /\ items' = Append(items, buildPlaylistItem(path))
    /\ action' = [actionType |-> "APPEND_TO_PLAYLIST", itemIndex |-> 0, path |-> path]
    /\ errorLogged' = buildLogsError(buildPlaylistItem(path))
    /\ UNCHANGED <<current, removes>>

\* case CollectionConstants.PLAY_NOW
DispatchPlayNow(path) ==
    /\ Len(items) < MaxItems
    /\ items' = <<buildPlaylistItem(path)>> \o items
    /\ current' = reset(items')
    /\ action' = [actionType |-> "PLAY_NOW", itemIndex |-> 0, path |-> path]
    /\ errorLogged' = buildLogsError(buildPlaylistItem(path))
    /\ UNCHANGED removes

\* case PlaylistConstants.PLAY_ITEM
DispatchPlayItem(itemIndex, path) ==
    /\ current' = setCurrent(items, current, itemIndex, path)
    /\ action' = [actionType |-> "PLAY_ITEM", itemIndex |-> itemIndex, path |-> path]
    /\ errorLogged' = setCurrentError(items, itemIndex, path)
    /\ UNCHANGED <<items, removes>>

----------------------------------------------------------------------------
(* The connection loop of websocket.go and the player registry.            *)

Conns == {"c1", "c2"}
PlayerKeys == {"", "a", "b"}
NoPlayer == "none"

\* player.Players.Remove(key): the binding of key is deleted.
PlayersRemove(ps, key) == [k \in PlayerKeys |-> IF k = key THEN NoPlayer ELSE ps[k]]

\* player.Players.Add(WebsocketPlayer(key, conn)): key is bound to a player
\* that sends on conn.
PlayersAdd(ps, key, conn) == [k \in PlayerKeys |-> IF k = key THEN conn ELSE ps[k]]

\* key without h.players.Remove(h.playerKey): the player bound under the
\* previous key stays.
keyKeepsPrevious(c, k) ==
    /\ players' = IF k # "" THEN PlayersAdd(players, k, c) ELSE players
    /\ playerKey' = [playerKey EXCEPT ![c] = k]

\* websocketHandler.key with a readable "key" field.
key(c, k) ==
    LET removed == PlayersRemove(players, playerKey[c])
    IN  /\ players' = IF k # "" THEN PlayersAdd(removed, k, c) ELSE removed
        /\ playerKey' = [playerKey EXCEPT ![c] = k]

\* The first statement of Handle: defer h.players.Remove(h.playerKey).  The
\* argument of a deferred call is evaluated when the defer statement runs.
HandleStart(c) ==
    /\ loop[c] = "start"
    /\ deferredKey' = [deferredKey EXCEPT ![c] = playerKey[c]]
    /\ loop' = [loop EXCEPT ![c] = "running"]
    /\ UNCHANGED <<players, playerKey, err>>
    /\ UNCHANGED loopVars
    /\ UNCHANGED storeVars

\* Handle returns: the deferred h.players.Remove runs with its saved argument.
HandleReturn(c, e) ==
    /\ players' = PlayersRemove(players, deferredKey[c])
    /\ loop' = [loop EXCEPT ![c] = "done"]
    /\ err' = [err EXCEPT ![c] = e]
    /\ UNCHANGED <<playerKey, deferredKey>>
    /\ UNCHANGED storeVars

\* A KEY command is received and handled.
HandleKey(c, k) ==
    /\ loop[c] = "running"
    /\ key(c, k)
    /\ UNCHANGED <<loop, deferredKey, err>>
    /\ UNCHANGED loopVars
    /\ UNCHANGED storeVars

\* A KEY command without a string "key" field: getString fails, the loop breaks.
HandleKeyError(c) ==
    /\ loop[c] = "running"
    /\ HandleReturn(c, "expected 'key' in data map")
    /\ UNCHANGED loopVars

\* websocket.JSON.Receive fails (EOF or a transport error): the loop breaks.
HandleReceiveError(c, e) ==
    /\ loop[c] = "running"
    /\ HandleReturn(c, e)
    /\ UNCHANGED loopVars

\* A command with an unknown Action: the loop breaks.
HandleUnknownAction(c) ==
    /\ loop[c] = "running"
    /\ HandleReturn(c, "unknown action")
    /\ UNCHANGED loopVars

----------------------------------------------------------------------------
(* Commands.  Data maps field names to decoded JSON values.                *)

\* A decoded JSON value with the Go type encoding/json gives it: a string, a
\* float64 (n holds the number in tenths), a bool or an array of strings.
JString(v) == [t |-> "string", s |-> v, n |-> 0, b |-> FALSE, p |-> <<>>]
JNumber(tenths) == [t |-> "float64", s |-> "", n |-> tenths, b |-> FALSE, p |-> <<>>]
JBool(v) == [t |-> "bool", s |-> "", n |-> 0, b |-> v, p |-> <<>>]
JArray(v) == [t |-> "[]interface {}", s |-> "", n |-> 0, b |-> FALSE, p |-> v]
JNil == [t |-> "nil", s |-> "", n |-> 0, b |-> FALSE, p |-> <<>>]

NoFields == [f \in {} |-> JNil]

Command(a, d) == [Action |-> a, Data |-> d]

\* var c Command: the zero value.
NoCommand == Command("", NoFields)

\* The getters return [value, err]; err is "nil" when there is none.
get(c, f) ==
    IF f \in DOMAIN c.Data
    THEN [value |-> c.Data[f], err |-> "nil"]
    ELSE [value |-> JNil, err |-> "expected '" \o f \o "' in data map"]

getString(c, f) ==
    LET raw == get(c, f)
    IN  IF raw.err # "nil" THEN [value |-> "", err |-> raw.err]
        ELSE IF raw.value.t # "string"
        THEN [value |-> "",
              err |-> "expected '" \o f \o "' to be of type 'string', got '" \o raw.value.t \o "'"]
        ELSE [value |-> raw.value.s, err |-> "nil"]

\* The value is in tenths.
getFloat(c, f) ==
    LET raw == get(c, f)
    IN  IF raw.err # "nil" THEN [value |-> 0, err |-> raw.err]
        ELSE IF raw.value.t # "float64"
        THEN [value |-> 0,
              err |-> "expected '" \o f \o "' to be of type 'float64', got '" \o raw.value.t \o "'"]
        ELSE [value |-> raw.value.n, err |-> "nil"]

\* int(raw): the fraction is cut off (the numbers sent are not negative).
getInt(c, f) ==
    LET raw == getFloat(c, f)
    IN  IF raw.err # "nil" THEN [value |-> 0, err |-> raw.err]
        ELSE [value |-> raw.value \div 10, err |-> "nil"]

getBool(c, f) ==
    LET raw == get(c, f)
    IN  IF raw.err # "nil" THEN [value |-> FALSE, err |-> raw.err]
        ELSE IF raw.value.t # "bool"
        THEN [value |-> FALSE,
              err |-> "expected '" \o f \o "' to be of type 'bool', got '" \o raw.value.t \o "'"]
        ELSE [value |-> raw.value.b, err |-> "nil"]

\* index.PathFromJSONInterface: an array of strings is a Path, anything else
\* an error; the nil Path is the empty sequence.
PathFromJSONInterface(raw) ==
    IF raw.t = "[]interface {}" THEN [value |-> raw.p, err |-> "nil"]
    ELSE [value |-> <<>>, err |-> "path: expected an array, got '" \o raw.t \o "'"]

getPath(c, f) ==
    LET raw == get(c, f)
    IN  IF raw.err # "nil" THEN [value |-> <<>>, err |-> raw.err]
        ELSE PathFromJSONInterface(raw.value)

----------------------------------------------------------------------------
(* The collaborators of the handlers that live outside websocket.go.       *)

\* player.Players.List and player.Players.Get
PlayersList(ps) == { k \in PlayerKeys : ps[k] # NoPlayer }
PlayersGet(ps, k) == IF k \in PlayerKeys THEN ps[k] ELSE NoPlayer

\* player.RepAction.Apply on the player of connection target: the player's
\* repFn sends one message with Action CTRL on the socket of that connection
\* (nothing arrives on a socket whose loop has ended).
RepActionApply(target, a, value) ==
    IF loop[target] = "done" THEN pushed
    ELSE [pushed EXCEPT ![target] =
            <<[Action |-> "CTRL", Data |-> [action |-> a, value |-> value]]>>]

\* The verbs a playlist and a cursor RepAction are applied for; Apply fails
\* for any other.
PlaylistVerbs == {"NEXT", "PREV", "REMOVE", "PLAY_ITEM", "APPEND", "PLAY_NOW"}
CursorVerbs == {"NEXT", "PREV", "SET"}
ApplyErr(ra, verbs) ==
    IF ra.Action \in verbs THEN "nil" ELSE "invalid action: " \o ra.Action

\* playlist.Store.Get and cursor.Store.Get: the state of the named store is
\* what has been applied to it, in order.
StoreGet(store, name) == SelectSeq(store, LAMBDA m : m.ra.Name = name)

\* favourites.Set and checklist.Set: the Path is in the store exactly if its
\* value is true.  (history.Add puts the Path among the played ones.)
MetaSet(paths, path, value) == IF value THEN paths \cup {path} ELSE paths \ {path}

\* The library: its collections, its filters with their items, and the
\* paths lib.Fetch finds.
Collections == {"Root"}
Filters == {"Artist"}
FilterItems == {"x"}
LibraryPaths == { <<"Root">>, <<"Root", "a">> }
FetchErr(p) == IF p \in LibraryPaths THEN "nil" ELSE "error in Fetch"

----------------------------------------------------------------------------
(* Handle, step by step: Receive, the case of the switch, the test of err  *)
(* and resp, Send.  loop[c] is "running" at Receive, "handling" between    *)
(* Receive and the handler, "applied" inside playlist and cursor between   *)
(* Apply and Get, "sending" at Send.                                       *)

\* websocket.JSON.Receive delivers a Command.
Receive(c, command) ==
    /\ loop[c] = "running"
    /\ loop' = [loop EXCEPT ![c] = "handling"]
    /\ cmd' = [cmd EXCEPT ![c] = command]
    /\ written' = [written EXCEPT ![c] = <<>>]
    /\ UNCHANGED <<players, playerKey, deferredKey, err>>
    /\ UNCHANGED <<resp, pushed, searcher, meta, playlists, cursors>>
    /\ UNCHANGED storeVars

\* break with err = e: Handle returns.
Break(c, e) ==
    /\ HandleReturn(c, e)
    /\ cmd' = [cmd EXCEPT ![c] = NoCommand]
    /\ resp' = [resp EXCEPT ![c] = NULL]

\* The loop sends resp before it breaks on an error of the handler.
ReturnedSendsBeforeBreak(c, r, e) ==
    IF e # "nil"
    THEN /\ Break(c, e)
         /\ written' = [written EXCEPT ![c] = <<[Action |-> cmd[c].Action, Data |-> e]>>]
    ELSE /\ UNCHANGED <<players, playerKey, deferredKey, err, written>>
         /\ UNCHANGED storeVars
         /\ IF r = NULL
            THEN /\ loop' = [loop EXCEPT ![c] = "running"]
                 /\ cmd' = [cmd EXCEPT ![c] = NoCommand]
                 /\ UNCHANGED resp
            ELSE /\ loop' = [loop EXCEPT ![c] = "sending"]
                 /\ resp' = [resp EXCEPT ![c] = r]
                 /\ UNCHANGED cmd

\* The handler has returned (r, e): if err != nil break; if resp == nil
\* continue; otherwise the loop goes on to Send.
Returned(c, r, e) ==
    IF e # "nil"
    THEN /\ Break(c, e)
         /\ UNCHANGED written
    ELSE /\ UNCHANGED <<players, playerKey, deferredKey, err, written>>
         /\ UNCHANGED storeVars
         /\ IF r = NULL
            THEN /\ loop' = [loop EXCEPT ![c] = "running"]
                 /\ cmd' = [cmd EXCEPT ![c] = NoCommand]
                 /\ UNCHANGED resp
            ELSE /\ loop' = [loop EXCEPT ![c] = "sending"]
                 /\ resp' = [resp EXCEPT ![c] = r]
                 /\ UNCHANGED cmd

\* case ActionKey: err = h.key(c); resp stays nil.
CaseKey(c) ==
    /\ loop[c] = "handling"
    /\ cmd[c].Action = "KEY"
    /\ LET k == getString(cmd[c], "key")
       IN  IF k.err # "nil"
           THEN /\ Break(c, k.err)
           ELSE /\ key(c, k.value)
                /\ loop' = [loop EXCEPT ![c] = "running"]
                /\ cmd' = [cmd EXCEPT ![c] = NoCommand]
                /\ UNCHANGED <<deferredKey, err, resp>>
                /\ UNCHANGED storeVars
    /\ UNCHANGED <<written, pushed, searcher, meta, playlists, cursors>>

\* case ActionPlayer: resp, err = h.player(c)
CasePlayer(c) ==
    /\ loop[c] = "handling"
    /\ cmd[c].Action = "PLAYER"
    /\ LET a == getString(cmd[c], "action")
           k == getString(cmd[c], "key")
           p == PlayersGet(players, k.value)
           value == IF "value" \in DOMAIN cmd[c].Data THEN cmd[c].Data["value"] ELSE JNil
       IN  IF a.err # "nil"
           THEN Returned(c, NULL, a.err) /\ UNCHANGED pushed
           ELSE IF a.value = "LIST"
           THEN /\ Returned(c, <<[Action |-> cmd[c].Action, Data |-> PlayersList(players)]>>, "nil")
                /\ UNCHANGED pushed
           ELSE IF k.err # "nil"
           THEN Returned(c, NULL, k.err) /\ UNCHANGED pushed
           ELSE IF p = NoPlayer
           THEN Returned(c, NULL, "invalid player key: " \o k.value) /\ UNCHANGED pushed
           ELSE /\ pushed' = RepActionApply(p, a.value, value)
                /\ Returned(c, NULL, "nil")
    /\ UNCHANGED <<searcher, meta, playlists, cursors>>

\* case ActionRecordPlay: err = h.recordPlay(c); e is what history.Add returns.
CaseRecordPlay(c, e) ==
    /\ loop[c] = "handling"
    /\ cmd[c].Action = "RECORD_PLAY"
    /\ LET p == getPath(cmd[c], "path")
       IN  /\ Returned(c, NULL, IF p.err # "nil" THEN p.err ELSE e)
           /\ meta' = IF p.err = "nil" /\ e = "nil"
                      THEN [meta EXCEPT !.history = @ \cup {p.value}]
                      ELSE meta
    /\ UNCHANGED <<pushed, searcher, playlists, cursors>>

\* case ActionSetFavourite: err = h.setFavourite(c); e is what favourites.Set
\* returns.
CaseSetFavourite(c, e) ==
    /\ loop[c] = "handling"
    /\ cmd[c].Action = "SET_FAVOURITE"
    /\ LET p == getPath(cmd[c], "path")
           value == getBool(cmd[c], "value")
       IN  /\ Returned(c, NULL, IF p.err # "nil" THEN p.err
                                ELSE IF value.err # "nil" THEN value.err ELSE e)
           /\ meta' = IF p.err = "nil" /\ value.err = "nil" /\ e = "nil"
                      THEN [meta EXCEPT !.favourites = MetaSet(@, p.value, value.value)]
                      ELSE meta
    /\ UNCHANGED <<pushed, searcher, playlists, cursors>>

\* case ActionSetChecklist: err = h.setChecklist(c); e is what checklist.Set
\* returns.
CaseSetChecklist(c, e) ==
    /\ loop[c] = "handling"
    /\ cmd[c].Action = "SET_CHECKLIST"
    /\ LET p == getPath(cmd[c], "path")
           value == getBool(cmd[c], "value")
       IN  /\ Returned(c, NULL, IF p.err # "nil" THEN p.err
                                ELSE IF value.err # "nil" THEN value.err ELSE e)
           /\ meta' = IF p.err = "nil" /\ value.err = "nil" /\ e = "nil"
                      THEN [meta EXCEPT !.checklist = MetaSet(@, p.value, value.value)]
                      ELSE meta
    /\ UNCHANGED <<pushed, searcher, playlists, cursors>>

\* ra := playlist.RepAction{...}: the error of getInt("index") is dropped.
playlistRepAction(c) ==
    [Name |-> getString(c, "name").value,
     Action |-> getString(c, "action").value,
     Path |-> getPath(c, "path").value,
     Index |-> getInt(c, "index").value]

\* ra := cursor.RepAction{...}: the errors of getPath("path") and of
\* getInt("index") are dropped.
cursorRepAction(c) ==
    [Name |-> getString(c, "name").value,
     Action |-> getString(c, "action").value,
     Path |-> getPath(c, "path").value,
     Index |-> getInt(c, "index").value]

\* The connection's handler is between Apply and Get.
Applied(c) ==
    /\ loop' = [loop EXCEPT ![c] = "applied"]
    /\ UNCHANGED <<players, playerKey, deferredKey, err, cmd, resp, written>>
    /\ UNCHANGED storeVars

\* The Response of playlist with the state of the named store as it was
\* before the handler's own Apply.
playlistResponseBeforeApply(c) ==
    LET state == StoreGet(playlists, getString(cmd[c], "name").value)
    IN  <<[Action |-> cmd[c].Action,
           Data |-> IF loop[c] = "applied" THEN SubSeq(state, 1, Len(state) - 1) ELSE state]>>

\* &Response{Action: c.Action, Data: h.meta.playlists.Get(name)}
playlistResponse(c) ==
    <<[Action |-> cmd[c].Action,
       Data |-> StoreGet(playlists, getString(cmd[c], "name").value)]>>

\* case ActionPlaylist: resp, err = h.playlist(c), up to the return of
\* ra.Apply (or to the Response of a FETCH).
CasePlaylist(c) ==
    /\ loop[c] = "handling"
    /\ cmd[c].Action = "PLAYLIST"
    /\ LET name == getString(cmd[c], "name")
           act == getString(cmd[c], "action")
           path == getPath(cmd[c], "path")
           ra == playlistRepAction(cmd[c])
       IN  IF name.err # "nil"
           THEN Returned(c, NULL, name.err) /\ UNCHANGED playlists
           ELSE IF act.err # "nil"
           THEN Returned(c, NULL, act.err) /\ UNCHANGED playlists
           ELSE IF act.value = "FETCH"
           THEN Returned(c, playlistResponse(c), "nil") /\ UNCHANGED playlists
           ELSE IF path.err # "nil"
           THEN Returned(c, NULL, path.err) /\ UNCHANGED playlists
           ELSE IF ApplyErr(ra, PlaylistVerbs) # "nil"
           THEN Returned(c, NULL, ApplyErr(ra, PlaylistVerbs)) /\ UNCHANGED playlists
           ELSE /\ Len(playlists) + Len(cursors) < MaxMutations
                /\ playlists' = Append(playlists, [by |-> c, ra |-> ra])
                /\ Applied(c)
    /\ UNCHANGED <<pushed, searcher, meta, cursors>>

\* The rest of playlist after ra.Apply: the Response with playlists.Get(name).
PlaylistGet(c) ==
    /\ loop[c] = "applied"
    /\ cmd[c].Action = "PLAYLIST"
    /\ Returned(c, playlistResponse(c), "nil")
    /\ UNCHANGED <<pushed, searcher, meta, playlists, cursors>>

\* &Response{Action: c.Action, Data: h.meta.cursors.Get(name)}
cursorResponse(c) ==
    <<[Action |-> cmd[c].Action,
       Data |-> StoreGet(cursors, getString(cmd[c], "name").value)]>>

\* case ActionCursor: resp, err = h.cursor(c), up to the return of ra.Apply
\* (or to the Response of a FETCH).
CaseCursor(c) ==
    /\ loop[c] = "handling"
    /\ cmd[c].Action = "CURSOR"
    /\ LET name == getString(cmd[c], "name")
           act == getString(cmd[c], "action")
           ra == cursorRepAction(cmd[c])
       IN  IF name.err # "nil"
           THEN Returned(c, NULL, name.err) /\ UNCHANGED cursors
           ELSE IF act.err # "nil"
           THEN Returned(c, NULL, act.err) /\ UNCHANGED cursors
           ELSE IF act.value = "FETCH"
           THEN Returned(c, cursorResponse(c), "nil") /\ UNCHANGED cursors
           ELSE IF ApplyErr(ra, CursorVerbs) # "nil"
           THEN Returned(c, NULL, ApplyErr(ra, CursorVerbs)) /\ UNCHANGED cursors
           ELSE /\ Len(playlists) + Len(cursors) < MaxMutations
                /\ cursors' = Append(cursors, [by |-> c, ra |-> ra])
                /\ Applied(c)
    /\ UNCHANGED <<pushed, searcher, meta, playlists>>

\* The rest of cursor after ra.Apply: the Response with cursors.Get(name).
CursorGet(c) ==
    /\ loop[c] = "applied"
    /\ cmd[c].Action = "CURSOR"
    /\ Returned(c, cursorResponse(c), "nil")
    /\ UNCHANGED <<pushed, searcher, meta, playlists, cursors>>

\* case ActionFetch: resp, err = h.collectionList(c)
CaseFetch(c) ==
    /\ loop[c] = "handling"
    /\ cmd[c].Action = "FETCH"
    /\ LET p == getPath(cmd[c], "path")
       IN  IF p.err # "nil" THEN Returned(c, NULL, p.err)
           ELSE IF Len(p.value) < 1 THEN Returned(c, NULL, "invalid path")
           ELSE IF p.value[1] \notin Collections
           THEN Returned(c, NULL, "unknown collection: " \o p.value[1])
           ELSE IF FetchErr(p.value) # "nil" THEN Returned(c, NULL, FetchErr(p.value))
           ELSE Returned(c, <<[Action |-> cmd[c].Action,
                               Data |-> [Path |-> p.value, Item |-> "group"]]>>, "nil")
    /\ UNCHANGED <<pushed, searcher, meta, playlists, cursors>>

\* case ActionFilterList: resp, err = h.filterList(c)
CaseFilterList(c) ==
    /\ loop[c] = "handling"
    /\ cmd[c].Action = "FILTER_LIST"
    /\ LET filterName == getString(cmd[c], "name")
       IN  IF filterName.err # "nil" THEN Returned(c, NULL, filterName.err)
           ELSE IF filterName.value \notin Filters
           THEN Returned(c, NULL, "invalid filter name: " \o filterName.value)
           ELSE Returned(c, <<[Action |-> cmd[c].Action,
                               Data |-> [Name |-> filterName.value, Items |-> FilterItems]]>>,
                         "nil")
    /\ UNCHANGED <<pushed, searcher, meta, playlists, cursors>>

\* case ActionFilterPaths: resp, err = h.filterPaths(c)
CaseFilterPaths(c) ==
    /\ loop[c] = "handling"
    /\ cmd[c].Action = "FILTER_PATHS"
    /\ LET path == getPath(cmd[c], "path")
           filterName == getString(cmd[c], "name")
       IN  IF path.err # "nil" THEN Returned(c, NULL, path.err)
           ELSE IF filterName.err # "nil" THEN Returned(c, NULL, filterName.err)
           ELSE IF filterName.value \notin Filters
           THEN Returned(c, NULL, "invalid filter name: " \o filterName.value)
           ELSE IF Len(path.value) # 1 THEN Returned(c, NULL, "invalid path")
           ELSE IF path.value[1] \notin FilterItems
           THEN Returned(c, NULL, "invalid filter item: " \o path.value[1])
           ELSE Returned(c, <<[Action |-> cmd[c].Action,
                               Data |-> [Path |-> <<filterName.value, path.value[1]>>,
                                         Paths |-> "group"]]>>, "nil")
    /\ UNCHANGED <<pushed, searcher, meta, playlists, cursors>>

\* case ActionFetchPathList: resp, err = h.fetchPathList(c)
CaseFetchPathList(c) ==
    /\ loop[c] = "handling"
    /\ cmd[c].Action = "FETCH_PATHLIST"
    /\ LET name == getString(cmd[c], "name")
       IN  IF name.err # "nil" THEN Returned(c, NULL, name.err)
           ELSE Returned(c, <<[Action |-> cmd[c].Action,
                               Data |-> [Name |-> name.value, Data |-> "group"]]>>, "nil")
    /\ UNCHANGED <<pushed, searcher, meta, playlists, cursors>>

\* sameSearcher.Search with the first Key of each Path compared instead of
\* the second.
sameSearcherSearchFirstKey(r, paths) ==
    [paths |-> paths,
     searched |-> TRUE,
     same |-> /\ Len(r.paths) = Len(paths)
              /\ \A i \in 1..Len(r.paths) : r.paths[i][1] = paths[i][1]]

\* sameSearcher.Search, where paths is what the wrapped Searcher finds:
\* path[1] of the source is the second Key, path[2] here.  (searched is not
\* a field of the struct: it records that Search has been called.)
sameSearcherSearch(r, paths) ==
    [paths |-> paths,
     searched |-> TRUE,
     same |-> /\ Len(r.paths) = Len(paths)
              /\ \A i \in 1..Len(r.paths) : r.paths[i][2] = paths[i][2]]

\* case ActionSearch: resp, err = h.search(c)
CaseSearch(c, paths) ==
    /\ loop[c] = "handling"
    /\ cmd[c].Action = "SEARCH"
    /\ LET input == getString(cmd[c], "input")
           r == sameSearcherSearch(searcher[c], paths)
       IN  IF input.err # "nil"
           THEN Returned(c, NULL, input.err) /\ UNCHANGED searcher
           ELSE /\ searcher' = [searcher EXCEPT ![c] = r]
                /\ IF r.same
                   THEN Returned(c, NULL, "nil")
                   ELSE Returned(c, <<[Action |-> cmd[c].Action, Data |-> paths]>>, "nil")
    /\ UNCHANGED <<pushed, meta, playlists, cursors>>

\* The Actions the switch has a case for.
KnownActions ==
    {"KEY", "PLAYER", "RECORD_PLAY", "SET_FAVOURITE", "SET_CHECKLIST", "PLAYLIST",
     "CURSOR", "FETCH", "SEARCH", "FILTER_LIST", "FILTER_PATHS", "FETCH_PATHLIST"}

\* default: err = fmt.Errorf("unknown action: %v", c.Action)
CaseDefault(c) ==
    /\ loop[c] = "handling"
    /\ cmd[c].Action \notin KnownActions
    /\ Returned(c, NULL, "unknown action: " \o cmd[c].Action)
    /\ UNCHANGED <<pushed, searcher, meta, playlists, cursors>>

\* Send with the Response written twice.
SendTwice(c) ==
    /\ loop[c] = "sending"
    /\ written' = [written EXCEPT ![c] = written[c] \o <<resp[c][1], resp[c][1]>>]
    /\ loop' = [loop EXCEPT ![c] = "running"]
    /\ cmd' = [cmd EXCEPT ![c] = NoCommand]
    /\ resp' = [resp EXCEPT ![c] = NULL]
    /\ UNCHANGED <<players, playerKey, deferredKey, err>>
    /\ UNCHANGED <<pushed, searcher, meta, playlists, cursors>>
    /\ UNCHANGED storeVars

\* websocket.JSON.Send(h.Conn, resp) succeeds.
Send(c) ==
    /\ loop[c] = "sending"
    /\ written' = [written EXCEPT ![c] = Append(written[c], resp[c][1])]
    /\ loop' = [loop EXCEPT ![c] = "running"]
    /\ cmd' = [cmd EXCEPT ![c] = NoCommand]
    /\ resp' = [resp EXCEPT ![c] = NULL]
    /\ UNCHANGED <<players, playerKey, deferredKey, err>>
    /\ UNCHANGED <<pushed, searcher, meta, playlists, cursors>>
    /\ UNCHANGED storeVars

\* websocket.JSON.Send fails (EOF or a transport error): the loop breaks.
SendError(c, e) ==
    /\ loop[c] = "sending"
    /\ Break(c, e)
    /\ UNCHANGED <<written, pushed, searcher, meta, playlists, cursors>>

----------------------------------------------------------------------------
(* Specifications. *)

Init ==
    /\ items = <<>>
    /\ current = NULL
    /\ action = NoAction
    /\ errorLogged = FALSE
    /\ removes = 0
    /\ players = [k \in PlayerKeys |-> NoPlayer]
    /\ loop = [c \in Conns |-> "start"]
    /\ playerKey = [c \in Conns |-> ""]
    /\ deferredKey = [c \in Conns |-> ""]
    /\ err = [c \in Conns |-> "nil"]
    /\ cmd = [c \in Conns |-> NoCommand]
    /\ resp = [c \in Conns |-> NULL]
    /\ written = [c \in Conns |-> <<>>]
    /\ pushed = [c \in Conns |-> NULL]
    /\ searcher = [c \in Conns |-> [paths |-> <<>>, searched |-> FALSE, same |-> FALSE]]
    /\ meta = [history |-> {}, favourites |-> {}, checklist |-> {}]
    /\ playlists = <<>>
    /\ cursors = <<>>

Next ==
    \/ DispatchNext /\ UNCHANGED connVars
    \/ DispatchPrev /\ UNCHANGED connVars
    \/ \E i \in 0..(Len(items) - 1), p \in RemovePaths :
          DispatchRemove(i, p) /\ UNCHANGED connVars
    \/ \E p \in RootPaths : DispatchAppend(p) /\ UNCHANGED connVars
    \/ \E p \in RootPaths : DispatchPlayNow(p) /\ UNCHANGED connVars
    \/ \E i \in 0..(Len(items) - 1), p \in PlayPaths :
          DispatchPlayItem(i, p) /\ UNCHANGED connVars

Spec == Init /\ [][Next]_vars

\* The playlist store over a catalog that holds the collection E.
NextOverE ==
    \/ DispatchNext /\ UNCHANGED connVars
    \/ DispatchPrev /\ UNCHANGED connVars
    \/ \E i \in 0..(Len(items) - 1), p \in RemovePaths \cup { <<"E", "N">>, <<"E", "M">> } :
          DispatchRemove(i, p) /\ UNCHANGED connVars
    \/ \E p \in RootPathsOfE : DispatchAppend(p) /\ UNCHANGED connVars
    \/ \E p \in RootPathsOfE : DispatchPlayNow(p) /\ UNCHANGED connVars
    \/ \E i \in 0..(Len(items) - 1), p \in PlayPaths :
          DispatchPlayItem(i, p) /\ UNCHANGED connVars

SpecOverE == Init /\ [][NextOverE]_vars

NextConn ==
    \E c \in Conns :
        \/ HandleStart(c)
        \/ \E k \in PlayerKeys : HandleKey(c, k)
        \/ HandleKeyError(c)
        \/ \E e \in {"EOF", "receive"} : HandleReceiveError(c, e)
        \/ HandleUnknownAction(c)

SpecConn == Init /\ [][NextConn]_vars

\* The Commands the clients send.
APath == <<"Root", "a">>

KeyCommands ==
    { Command("KEY", "key" :> JString("a")),
      Command("KEY", NoFields) }

PlayerCommands ==
    { Command("PLAYER", "action" :> JString("LIST")),
      Command("PLAYER", ("action" :> JString("PLAY")) @@ ("key" :> JString("a"))) }

PathCommands ==
    { Command("RECORD_PLAY", "path" :> JArray(APath)),
      Command("RECORD_PLAY", NoFields),
      Command("SET_FAVOURITE", ("path" :> JArray(APath)) @@ ("value" :> JBool(TRUE))),
      Command("SET_FAVOURITE", ("path" :> JArray(APath)) @@ ("value" :> JBool(FALSE))),
      Command("SET_FAVOURITE", ("path" :> JArray(APath)) @@ ("value" :> JString("yes"))),
      Command("SET_CHECKLIST", ("path" :> JArray(APath)) @@ ("value" :> JBool(TRUE))) }

\* PLAYLIST: a FETCH, a NEXT without path, a NEXT with a path and an index
\* of the wrong type, a verb Apply rejects, a command without name; and a
\* REMOVE with path and index 1.5.
PlaylistCommandsOfLoop ==
    { Command("PLAYLIST", ("name" :> JString("main")) @@ ("action" :> JString("FETCH"))),
      Command("PLAYLIST", ("name" :> JString("main")) @@ ("action" :> JString("NEXT"))),
      Command("PLAYLIST", ("name" :> JString("main")) @@ ("action" :> JString("NEXT"))
                          @@ ("path" :> JArray(APath)) @@ ("index" :> JString("1"))),
      Command("PLAYLIST", ("name" :> JString("main")) @@ ("action" :> JString("SHUFFLE"))
                          @@ ("path" :> JArray(APath))),
      Command("PLAYLIST", "action" :> JString("NEXT")) }

PlaylistCommands ==
    PlaylistCommandsOfLoop
    \cup { Command("PLAYLIST", ("name" :> JString("main")) @@ ("action" :> JString("REMOVE"))
                               @@ ("path" :> JArray(APath)) @@ ("index" :> JNumber(15))) }

\* CURSOR: a FETCH, a NEXT without path and index, a NEXT whose path and
\* index have the wrong type, a command without action; and a SET with path
\* and index 1.5.
CursorCommandsOfLoop ==
    { Command("CURSOR", ("name" :> JString("main")) @@ ("action" :> JString("FETCH"))),
      Command("CURSOR", ("name" :> JString("main")) @@ ("action" :> JString("NEXT"))),
      Command("CURSOR", ("name" :> JString("main")) @@ ("action" :> JString("NEXT"))
                        @@ ("path" :> JString("Root")) @@ ("index" :> JString("1"))),
      Command("CURSOR", "name" :> JString("main")) }

CursorCommands ==
    CursorCommandsOfLoop
    \cup { Command("CURSOR", ("name" :> JString("main")) @@ ("action" :> JString("SET"))
                             @@ ("path" :> JArray(APath)) @@ ("index" :> JNumber(15))) }

LibraryCommands ==
    { Command("FETCH", "path" :> JArray(APath)),
      Command("FETCH", "path" :> JArray(<<>>)),
      Command("FILTER_LIST", "name" :> JString("Artist")),
      Command("FILTER_LIST", "name" :> JString("Genre")),
      Command("FILTER_PATHS", ("path" :> JArray(<<"x">>)) @@ ("name" :> JString("Artist"))),
      Command("FETCH_PATHLIST", "name" :> JString("recent")) }

SearchCommands ==
    { Command("SEARCH", "input" :> JString("a")),
      Command("SEARCH", NoFields) }

UnknownCommands == { Command("CTRL", NoFields) }

\* What the wrapped Searcher finds: up to MaxResults Paths.  The first two
\* differ in their second Key, the first and the third in their other Keys.
SearchHits == { <<"Root", "a">>, <<"Root", "b">>, <<"Other", "a", "x">> }
SearchResults == UNION { [1..n -> SearchHits] : n \in 0..MaxResults }

\* What the searches of a connection find: any of the results for c1, no
\* Path or one for c2.
SearchResultsOf(c) == IF c = "c1" THEN SearchResults ELSE { <<>>, <<APath>> }

\* The commands of a browsing client: every kind of command.
LoopCommands ==
    KeyCommands \cup PlayerCommands \cup PathCommands \cup PlaylistCommandsOfLoop
    \cup CursorCommandsOfLoop \cup LibraryCommands \cup SearchCommands \cup UnknownCommands

\* Connection c1 is a browsing client that may register a player, c2 a
\* remote control that lists the players and forwards actions to them.
CommandsOf(c) == IF c = "c1" THEN LoopCommands ELSE PlayerCommands

NextLoop ==
    \E c \in Conns :
        \/ HandleStart(c)
        \/ \E m \in CommandsOf(c) : Receive(c, m)
        \/ HandleReceiveError(c, "EOF")
        \/ CaseKey(c)
        \/ CasePlayer(c)
        \/ \E e \in {"nil", "history"} : CaseRecordPlay(c, e)
        \/ \E e \in {"nil", "favourites"} : CaseSetFavourite(c, e)
        \/ \E e \in {"nil", "checklist"} : CaseSetChecklist(c, e)
        \/ CasePlaylist(c)
        \/ PlaylistGet(c)
        \/ CaseCursor(c)
        \/ CursorGet(c)
        \/ CaseFetch(c)
        \/ CaseSearch(c, <<APath>>)
        \/ CaseFilterList(c)
        \/ CaseFilterPaths(c)
        \/ CaseFetchPathList(c)
        \/ CaseDefault(c)
        \/ Send(c)
        \/ SendError(c, "send")

SpecLoop == Init /\ [][NextLoop]_vars

\* The PLAYLIST and CURSOR commands of two connections on the shared stores.
NextStore ==
    \E c \in Conns :
        \/ HandleStart(c)
        \/ \E m \in PlaylistCommands \cup CursorCommands : Receive(c, m)
        \/ \E e \in {"EOF", "receive"} : HandleReceiveError(c, e)
        \/ CasePlaylist(c)
        \/ PlaylistGet(c)
        \/ CaseCursor(c)
        \/ CursorGet(c)
        \/ Send(c)
        \/ \E e \in {"EOF", "send"} : SendError(c, e)

SpecStore == Init /\ [][NextStore]_vars

\* The SEARCH commands of two connections.
NextSearch ==
    \E c \in Conns :
        \/ HandleStart(c)
        \/ \E m \in SearchCommands : Receive(c, m)
        \/ \E e \in {"EOF", "receive"} : HandleReceiveError(c, e)
        \/ \E paths \in SearchResultsOf(c) : CaseSearch(c, paths)
        \/ Send(c)
        \/ \E e \in {"EOF", "send"} : SendError(c, e)

SpecSearch == Init /\ [][NextSearch]_vars

----------------------------------------------------------------------------
(* Definitions the claims are stated with. *)

\* The (item, track) pair of a non-null position.
Pos(cur) == <<cur[1].item, cur[1].track>>

\* Whether a non-null position names an existing track of an existing item.
ValidPos(its, cur) ==
    /\ cur[1].item >= 0 /\ cur[1].item < Len(its)
    /\ cur[1].track >= 0 /\ cur[1].track < Len(its[cur[1].item + 1].tracks)

AllItemsHaveTracks(its) == \A i \in 1..Len(its) : Len(its[i].tracks) > 0

\* The (item, track) pairs of the playlist in lexicographic order.
RECURSIVE LexPairs(_, _)
LexPairs(its, i) ==
    IF i >= Len(its) THEN <<>>
    ELSE [t \in 1..Len(its[i + 1].tracks) |-> <<i, t - 1>>] \o LexPairs(its, i + 1)

\* The positions repeated NEXT visits from cur on, up to the first null
\* (at most n of them).
RECURSIVE Visits(_, _, _)
Visits(its, cur, n) ==
    IF cur = NULL \/ n = 0 THEN <<>>
    ELSE <<Pos(cur)>> \o Visits(its, next(its, cur), n - 1)

\* The full paths of an item's tracks, in the order of its flat track list.
FullTracks(item) == [i \in 1..Len(item.tracks) |-> item.root \o item.tracks[i]]

FullTrackSet(item) == { FullTracks(item)[i] : i \in 1..Len(item.tracks) }

----------------------------------------------------------------------------
(* C1 *)

\* C1: when a connection's command loop has terminated, the player that the
\* connection registered through its last KEY command is no longer in the
\* registry.
C1_TerminatedConnectionHasNoPlayer ==
    \A c \in Conns :
        (loop[c] = "done" /\ playerKey[c] # "") => players[playerKey[c]] # c

----------------------------------------------------------------------------
(* C2 *)

\* C2: in a playlist with at least one item whose items all hold a track,
\* repeated NEXT from the position reset() sets visits every (item, track)
\* pair in lexicographic order exactly once and then yields null, and NEXT on
\* the null position yields (0, 0).
C2_NextVisitsAllInOrder ==
    (Len(items) > 0 /\ AllItemsHaveTracks(items)) =>
        /\ reset(items) # NULL
        /\ Pos(reset(items)) = <<0, 0>>
        /\ Visits(items, reset(items), Len(LexPairs(items, 0)) + 1) = LexPairs(items, 0)
        /\ next(items, NULL) # NULL
        /\ Pos(next(items, NULL)) = <<0, 0>>

\* A NEXT that ran past the last track of the last of two items.
C2_Witness ==
    /\ action.actionType = "NEXT"
    /\ Len(items) = 2
    /\ AllItemsHaveTracks(items)
    /\ current = NULL

----------------------------------------------------------------------------
(* C3 *)

\* C3: PLAY_ITEM(index, path) with a path that is not a track path of
\* item[index] reports an error and leaves the current position as it was.
C3_FailedPlayItemKeepsCurrent ==
    [][ ( /\ action'.actionType = "PLAY_ITEM"
          /\ action'.path \notin FullTrackSet(items[action'.itemIndex + 1]) )
        => (errorLogged' /\ current' = current) ]_vars

----------------------------------------------------------------------------
(* C4 *)

\* C4 as stated: in every playlist state, null position or not, canNext()
\* is true exactly if NEXT would leave the current position non-null.
C4_CanNextIffNextNonNull ==
    canNext(items, current) <=> (next(items, current) # NULL)

\* C4 amended: with a non-null current position canNext() is true exactly if
\* NEXT would leave the position non-null; with a null position canNext() is
\* false, and NEXT yields a position exactly if the playlist has an item.
C4_CanNextIffNextNonNullWhenPlaying ==
    /\ current # NULL => (canNext(items, current) <=> (next(items, current) # NULL))
    /\ current = NULL => /\ ~canNext(items, current)
                         /\ (next(items, current) # NULL) <=> (Len(items) > 0)

\* NEXT has arrived at the last track of the last of two items.
C4_Witness ==
    /\ action.actionType = "NEXT"
    /\ Len(items) = 2
    /\ current # NULL
    /\ ValidPos(items, current)
    /\ ~canNext(items, current)

----------------------------------------------------------------------------
(* C5 *)

\* C5 as stated: in every playlist state, null position or not, canPrev()
\* is true exactly if PREV would change the current position.
C5_CanPrevIffPrevMoves ==
    canPrev(items, current) <=> (prev(items, current) # current)

\* C5 amended: with a non-null current position canPrev() is true exactly if
\* PREV would change the position, and PREV at the first track of the first
\* item changes nothing; with a null position canPrev() is false, and PREV
\* changes the position exactly if the playlist has an item.
C5_CanPrevIffPrevMovesWhenPlaying ==
    /\ current # NULL =>
          /\ canPrev(items, current) <=> (Pos(prev(items, current)) # Pos(current))
          /\ Pos(current) = <<0, 0>> => prev(items, current) = current
    /\ current = NULL => /\ ~canPrev(items, current)
                         /\ (prev(items, current) # current) <=> (Len(items) > 0)

\* PREV has moved from the first track of the second item back into the first.
C5_Witness ==
    /\ action.actionType = "PREV"
    /\ Len(items) = 2
    /\ current # NULL
    /\ current[1].item = 0
    /\ current[1].track = Len(items[1].tracks) - 1
    /\ current[1].track > 0
    /\ canPrev(items, current)

----------------------------------------------------------------------------
(* C6 *)

IsPrefix(prefix, path) ==
    Len(prefix) <= Len(path) /\ SubSeq(path, 1, Len(prefix)) = prefix

\* C6: REMOVE(itemIndex, path) with a path other than the item's root removes
\* from the item's track list exactly the track Paths that have path as a
\* prefix and keeps every other track Path in its original order (stated for
\* the paths under the item's root and the REMOVEs that leave the item in
\* the playlist).
C6_RemoveDeletesTracksUnderPath ==
    [][ ( /\ action'.actionType = "REMOVE"
          /\ action'.path # items[action'.itemIndex + 1].root
          /\ IsPrefix(items[action'.itemIndex + 1].root, action'.path)
          /\ Len(items') = Len(items) )
        => FullTracks(items'[action'.itemIndex + 1])
             = SelectSeq(FullTracks(items[action'.itemIndex + 1]),
                         LAMBDA t : ~IsPrefix(action'.path, t)) ]_vars

----------------------------------------------------------------------------
(* C7 *)

\* The structural sub-Paths of an item are consistent: every one other than
\* the root has its parent among them and its Key in the parent's recorded
\* child-Key list, and none other than the root has an empty child-Key list.
NoDanglingSubPaths(item) ==
    \A n \in 1..Len(item.paths) :
        LET q == item.paths[n]
            parent == SubSeq(q, 1, Len(q) - 1)
        IN  q # <<>> =>
              /\ \E m \in 1..Len(item.paths) : item.paths[m] = parent
              /\ pathToKey(item.root \o parent) \in DOMAIN item.data
              /\ \E m \in 1..Len(item.data[pathToKey(item.root \o parent)].keys) :
                    item.data[pathToKey(item.root \o parent)].keys[m] = q[Len(q)]
              /\ pathToKey(item.root \o q) \in DOMAIN item.data
              /\ item.data[pathToKey(item.root \o q)].keys # <<>>

\* C7: a REMOVE of a path strictly under the item's root never deletes the
\* item, takes the pruned child's Key out of its parent's child-Key list,
\* and deletes every ancestor other than the root that is left without
\* children, so that the item retains no structural sub-Path whose parent
\* has been pruned.
C7_RemoveCollapsesAncestors ==
    [][ ( /\ action'.actionType = "REMOVE"
          /\ action'.path # items[action'.itemIndex + 1].root
          /\ IsPrefix(items[action'.itemIndex + 1].root, action'.path)
          /\ NoDanglingSubPaths(items[action'.itemIndex + 1]) )
        => /\ Len(items') = Len(items)
           /\ items'[action'.itemIndex + 1].root = items[action'.itemIndex + 1].root
           /\ NoDanglingSubPaths(items'[action'.itemIndex + 1]) ]_vars

----------------------------------------------------------------------------
(* C8 *)

\* C8: REMOVE(itemIndex, path) with path equal to the root of
\* item[itemIndex] deletes exactly that item; every other item stays, in the
\* same relative order, with its tracks and structure unchanged.
C8_RemoveRootDeletesOnlyThatItem ==
    [][ ( /\ action'.actionType = "REMOVE"
          /\ action'.path = items[action'.itemIndex + 1].root )
        => /\ Len(items') = Len(items) - 1
           /\ \A j \in 1..Len(items') :
                 items'[j] = IF j < action'.itemIndex + 1 THEN items[j] ELSE items[j + 1] ]_vars

\* The first of two items has been removed by its root and the other one,
\* of a different root, is left.
C8_Witness ==
    /\ action.actionType = "REMOVE"
    /\ action.itemIndex = 0
    /\ action.path = <<"R">>
    /\ Len(items) = 1
    /\ items[1] = buildPlaylistItem(<<"R", "X">>)

----------------------------------------------------------------------------
(* C9 *)

\* C9: every REMOVE, whatever its path and whatever it deleted, leaves the
\* playlist's current position null.
C9_RemoveClearsCurrent ==
    action.actionType = "REMOVE" => current = NULL

\* A REMOVE of a path under the root of the second of two items.
C9_Witness ==
    /\ action.actionType = "REMOVE"
    /\ action.itemIndex = 1
    /\ action.path = <<"R", "X", "A">>
    /\ Len(items) = 2
    /\ current = NULL

----------------------------------------------------------------------------
(* C10 *)

\* The item an APPEND_TO_PLAYLIST or a PLAY_NOW has just built.
Expanded == action.actionType \in {"APPEND_TO_PLAYLIST", "PLAY_NOW"}

NewItem == IF action.actionType = "PLAY_NOW" THEN items[1] ELSE items[Len(items)]

\* C10 as stated: the flat track list holds full Paths that start with the
\* root, in breadth-first order; for the root R/X with children A (tracks 0,
\* 1) and B (track 0) it is [[R,X,A,0], [R,X,A,1], [R,X,B,0]].
C10_TrackListHoldsFullPaths ==
    (Expanded /\ action.path = <<"R", "X">>) =>
        NewItem.tracks = << <<"R", "X", "A", "0">>, <<"R", "X", "A", "1">>,
                            <<"R", "X", "B", "0">> >>

\* C10 amended: the flat track list holds, in breadth-first order, the Paths
\* of the tracks relative to the root (the root followed by an entry is the
\* full Path of a track): each track under the root once, the tracks of a
\* shallower leaf before those of a deeper one; for the root R/X with
\* children A (tracks 0, 1) and B (track 0) it is [[A,0], [A,1], [B,0]].
C10_TrackListHoldsRelativePaths ==
    Expanded =>
        /\ NewItem.root = action.path
        /\ action.path = <<"R", "X">> =>
              NewItem.tracks = << <<"A", "0">>, <<"A", "1">>, <<"B", "0">> >>
        /\ FullTrackSet(NewItem) = { t \in CatalogTrackPaths : IsPrefix(action.path, t) }
        /\ Cardinality(FullTrackSet(NewItem)) = Len(NewItem.tracks)
        /\ \A i, j \in 1..Len(NewItem.tracks) :
              i < j => /\ Len(NewItem.tracks[i]) <= Len(NewItem.tracks[j])
                       /\ NewItem.tracks[i] # NewItem.tracks[j]

\* The one-Key root R has been expanded: the track of the leaf L comes
\* before the tracks of the leaves under X.
C10_Witness ==
    /\ Expanded
    /\ action.path = <<"R">>
    /\ Len(NewItem.tracks) = 4
    /\ NewItem.tracks[1] = <<"L", "0">>

----------------------------------------------------------------------------
(* C11 *)

\* C11: in every reachable playlist state a non-null current position has
\* an item index in [0, itemCount) and a track index in [0, trackCount) of
\* that item.
C11_CurrentPositionInRange ==
    current # NULL => ValidPos(items, current)

----------------------------------------------------------------------------
(* C12 *)

\* C12: the path of a non-null current position that names an existing
\* track is the root of the item it references followed by the entry of the
\* item's track list at its track index, whichever operation set it.
C12_CurrentPathIsRootPlusTrack ==
    (current # NULL /\ ValidPos(items, current)) =>
        current[1].path
          = items[current[1].item + 1].root
              \o items[current[1].item + 1].tracks[current[1].track + 1]

----------------------------------------------------------------------------
(* C20 *)

\* C20: when the expansion of a root meets a catalog node that has neither
\* groups nor tracks, the build is aborted with an error: no PlaylistItem is
\* produced and the playlist's item list is left unchanged.
C20_BuildAbortsOnEmptyNode ==
    [][ ( /\ action'.actionType \in {"APPEND_TO_PLAYLIST", "PLAY_NOW"}
          /\ \E q \in {<<"E">>, <<"E", "N">>} : action'.path = q )
        => (errorLogged' /\ items' = items) ]_vars

----------------------------------------------------------------------------
(* C13 *)

\* The rule of the search diff: same length, and at every index the same
\* second Key.
SameBySecondKey(previous, paths) ==
    /\ Len(previous) = Len(paths)
    /\ \A i \in 1..Len(paths) : previous[i][2] = paths[i][2]

\* A step in which the handler of connection c's SEARCH command, whose
\* input is readable, returns.
SearchReturns(c) ==
    /\ loop[c] = "handling"
    /\ cmd[c].Action = "SEARCH"
    /\ getString(cmd[c], "input").err = "nil"
    /\ loop'[c] # "handling"

\* C13: a SEARCH of a connection produces no Response exactly if its result
\* list has the length of the result list of the connection's previous
\* SEARCH and at every index the same second Key; differences in the other
\* Keys are ignored, and the new list becomes the previous one.  (Before a
\* connection's first SEARCH the previous list is the empty one.)
C13_SearchSuppressedIffSameSecondKeys ==
    [][ \A c \in Conns :
          SearchReturns(c) =>
            /\ err'[c] = "nil"
            /\ (loop'[c] = "running") <=> SameBySecondKey(searcher[c].paths, searcher'[c].paths)
            /\ (loop'[c] = "sending") <=> ~SameBySecondKey(searcher[c].paths, searcher'[c].paths)
            /\ loop'[c] = "sending" =>
                  resp'[c] = <<[Action |-> "SEARCH", Data |-> searcher'[c].paths]>>
            /\ loop'[c] = "running" => (resp'[c] = NULL /\ written'[c] = <<>>) ]_vars

\* A later SEARCH of c1 has found two Paths, the first with other Keys
\* around the second Key a, and has been answered with nothing.
C13_Witness ==
    /\ loop["c1"] = "running"
    /\ written["c1"] = <<>>
    /\ searcher["c1"].same
    /\ searcher["c1"].paths = << <<"Other", "a", "x">>, <<"Root", "b">> >>

----------------------------------------------------------------------------
(* C14 *)

\* The errors of Receive and of Send.
TransportErrors == {"EOF", "receive", "send"}

\* C14: when a Command has an unknown Action or its handler returns an
\* error, the loop ends: no Response is sent for that Command, and the
\* connection receives and dispatches no later Command.
C14_ErrorEndsLoopWithoutResponse ==
    /\ [](\A c \in Conns :
            err[c] # "nil" =>
              /\ loop[c] = "done"
              /\ cmd[c] = NoCommand
              /\ resp[c] = NULL
              /\ err[c] \notin TransportErrors => written[c] = <<>>)
    /\ [][ \A c \in Conns :
             /\ ( /\ loop[c] = "handling"
                  /\ cmd[c].Action \notin KnownActions
                  /\ loop'[c] # "handling" )
                => /\ loop'[c] = "done"
                   /\ err'[c] = "unknown action: " \o cmd[c].Action
                   /\ written'[c] = <<>>
             /\ loop[c] = "done"
                => /\ loop'[c] = "done"
                   /\ cmd'[c] = cmd[c]
                   /\ resp'[c] = resp[c]
                   /\ written'[c] = written[c]
                   /\ err'[c] = err[c] ]_vars

\* The loop of c1 has ended on a command with the Action CTRL, for which the
\* switch has no case, while c2 goes on.
C14_Witness ==
    /\ loop["c1"] = "done"
    /\ err["c1"] = "unknown action: CTRL"
    /\ written["c1"] = <<>>
    /\ loop["c2"] = "running"

----------------------------------------------------------------------------
(* C15 *)

\* The keys under which the registry holds a player that sends to c.
KeysOf(ps, c) == { q \in PlayerKeys : ps[q] = c }

\* C15: after a KEY command with key k on a connection whose previous key
\* was p, the registry holds no player of the connection under p (p other
\* than k), holds under k a player that sends to the connection when k is
\* not empty, and has gained no binding when k is empty; at any time there is
\* at most one player per connection (and, the registry being a map, one per
\* key).
C15_KeyRebindsThePlayer ==
    /\ [](\A c \in Conns : Cardinality(KeysOf(players, c)) <= 1)
    /\ [][ \A c \in Conns, k \in PlayerKeys :
             HandleKey(c, k) =>
               /\ playerKey'[c] = k
               /\ playerKey[c] # k => players'[playerKey[c]] # c
               /\ k # "" => KeysOf(players', c) = {k}
               /\ k = "" => /\ KeysOf(players', c) = {}
                            /\ \A q \in PlayerKeys :
                                  players'[q] # NoPlayer => players'[q] = players[q] ]_vars

\* c1 is registered under b and c2 under a; nothing is bound under the empty
\* key.
C15_Witness ==
    /\ loop["c1"] = "running" /\ loop["c2"] = "running"
    /\ playerKey["c1"] = "b" /\ players["b"] = "c1"
    /\ playerKey["c2"] = "a" /\ players["a"] = "c2"
    /\ players[""] = NoPlayer

----------------------------------------------------------------------------
(* C16 *)

\* The Actions whose handlers return no Response, and the PLAYER commands
\* that are forwarded to a player.
SilentActions == {"KEY", "RECORD_PLAY", "SET_FAVOURITE", "SET_CHECKLIST"}

Forwarded(m) ==
    /\ m.Action = "PLAYER"
    /\ getString(m, "action").err = "nil"
    /\ getString(m, "action").value # "LIST"

\* C16: for every Command the loop runs the handler to its end and then
\* sends at most one Response, with the Action of the Command, before it
\* receives the next Command; when the handler returns no Response (a
\* suppressed SEARCH, a forwarded PLAYER action, KEY, RECORD_PLAY,
\* SET_FAVOURITE, SET_CHECKLIST) the loop sends nothing and goes on.
C16_AtMostOneResponsePerCommand ==
    /\ [](\A c \in Conns :
            /\ Len(written[c]) <= 1
            /\ written[c] # <<>> => loop[c] \in {"running", "done"}
            /\ loop[c] = "sending" =>
                  /\ resp[c] # NULL
                  /\ resp[c][1].Action = cmd[c].Action
                  /\ cmd[c].Action \notin SilentActions
                  /\ ~Forwarded(cmd[c])
            /\ loop[c] # "sending" => resp[c] = NULL)
    /\ [][ \A c \in Conns :
             /\ written'[c] # written[c] /\ written'[c] # <<>>
                => /\ loop[c] = "sending"
                   /\ loop'[c] = "running"
                   /\ written'[c] = <<resp[c][1]>>
                   /\ resp[c][1].Action = cmd[c].Action
             /\ cmd'[c] # cmd[c] /\ cmd'[c] # NoCommand
                => /\ loop[c] = "running"
                   /\ cmd[c] = NoCommand
                   /\ loop'[c] = "handling"
             /\ loop[c] \in {"handling", "applied"} /\ loop'[c] = "running"
                => /\ written'[c] = <<>>
                   /\ err'[c] = "nil"
             /\ ( /\ loop[c] = "handling"
                  /\ cmd[c].Action = "SEARCH"
                  /\ loop'[c] # "handling"
                  /\ searcher'[c].same /\ searcher'[c] # searcher[c] )
                => loop'[c] = "running" ]_vars

\* c2 has forwarded a PLAYER action to the player of c1 and has sent
\* nothing; c1 has answered a FETCH with one Response.
C16_Witness ==
    /\ pushed["c1"] # NULL
    /\ loop["c2"] = "running" /\ written["c2"] = <<>>
    /\ loop["c1"] = "running"
    /\ Len(written["c1"]) = 1
    /\ written["c1"][1].Action = "FETCH"

----------------------------------------------------------------------------
(* C17 *)

\* Whether field f of Command m is there with the Go type t.
FieldIs(m, f, t) == f \in DOMAIN m.Data /\ m.Data[f].t = t

\* A PLAYLIST or CURSOR command with a name and an action other than FETCH.
Mutating(m) ==
    /\ m.Action \in {"PLAYLIST", "CURSOR"}
    /\ FieldIs(m, "name", "string")
    /\ FieldIs(m, "action", "string")
    /\ m.Data["action"].s # "FETCH"

\* The mutation such a command asks for: its path and the integer part of
\* its index where they are readable, no path and index 0 where they are not.
ExpectedRepAction(m) ==
    [Name |-> m.Data["name"].s,
     Action |-> m.Data["action"].s,
     Path |-> IF FieldIs(m, "path", "[]interface {}") THEN m.Data["path"].p ELSE <<>>,
     Index |-> IF FieldIs(m, "index", "float64") THEN m.Data["index"].n \div 10 ELSE 0]

\* The state of the store m names, and the mutations of connection c in a
\* state of a store.
NamedState(m) ==
    StoreGet(IF m.Action = "PLAYLIST" THEN playlists ELSE cursors, m.Data["name"].s)

ByConn(state, c) == SelectSeq(state, LAMBDA e : e.by = c)

\* C17: the Response to a successful PLAYLIST or CURSOR command other than
\* FETCH carries a state of the named store read after the command's own
\* mutation was applied (it holds every mutation of the connection, the one
\* of this command last among them), never the state from before it and
\* never a bare acknowledgement, whatever the other connection does to the
\* store in between.
C17_ResponseHoldsOwnMutation ==
    \A c \in Conns :
        (loop[c] \in {"applied", "sending"} /\ Mutating(cmd[c])) =>
            /\ ByConn(NamedState(cmd[c]), c) # <<>>
            /\ ByConn(NamedState(cmd[c]), c)[Len(ByConn(NamedState(cmd[c]), c))].ra
                 = ExpectedRepAction(cmd[c])
            /\ loop[c] = "sending" =>
                  /\ resp[c] # NULL
                  /\ resp[c][1].Action = cmd[c].Action
                  /\ IsPrefix(resp[c][1].Data, NamedState(cmd[c]))
                  /\ ByConn(resp[c][1].Data, c) = ByConn(NamedState(cmd[c]), c)

\* c1 is about to send the Response to its PLAYLIST mutation; the state in
\* it holds that mutation and, after it, one that c2 applied before c1 read
\* the store.
C17_Witness ==
    /\ loop["c1"] = "sending"
    /\ cmd["c1"].Action = "PLAYLIST"
    /\ Mutating(cmd["c1"])
    /\ Len(resp["c1"][1].Data) = 2
    /\ resp["c1"][1].Data[1].by = "c1"
    /\ resp["c1"][1].Data[2].by = "c2"

----------------------------------------------------------------------------
(* C18 *)

Field(f, t) == [f |-> f, t |-> t]

\* The fields the handler of Command m reads, with the types it expects.
FieldsRead(m) ==
    CASE m.Action = "KEY" -> { Field("key", "string") }
      [] m.Action = "PLAYER" ->
            { Field("action", "string") }
            \cup (IF FieldIs(m, "action", "string") /\ m.Data["action"].s # "LIST"
                  THEN { Field("key", "string") } ELSE {})
      [] m.Action = "RECORD_PLAY" -> { Field("path", "[]interface {}") }
      [] m.Action \in {"SET_FAVOURITE", "SET_CHECKLIST"} ->
            { Field("path", "[]interface {}"), Field("value", "bool") }
      [] m.Action \in {"PLAYLIST", "CURSOR"} ->
            { Field("name", "string"), Field("action", "string") }
            \cup (IF Mutating(m)
                  THEN { Field("path", "[]interface {}"), Field("index", "float64") }
                  ELSE {})
      [] m.Action = "FETCH" -> { Field("path", "[]interface {}") }
      [] m.Action = "SEARCH" -> { Field("input", "string") }
      [] m.Action = "FILTER_LIST" -> { Field("name", "string") }
      [] m.Action = "FILTER_PATHS" ->
            { Field("path", "[]interface {}"), Field("name", "string") }
      [] m.Action = "FETCH_PATHLIST" -> { Field("name", "string") }
      [] OTHER -> {}

Unreadable(m, fields) == \E fd \in fields : ~FieldIs(m, fd.f, fd.t)

\* A step in which the handler of connection c's Command returns or, in
\* playlist and cursor, gets as far as the return of Apply.
HandlerActs(c) == loop[c] = "handling" /\ loop'[c] # "handling"

\* The command of c fails: the loop ends with an error and no store has
\* been touched.
Fails(c) ==
    /\ loop'[c] = "done"
    /\ err'[c] # "nil"
    /\ UNCHANGED <<playlists, cursors, meta, pushed>>

\* C18 as stated: whenever a handler reads a Data field that is missing or
\* has the wrong type (path and index of CURSOR and PLAYLIST included), the
\* command fails and the loop ends; no handler goes on to a store with a
\* default value in the field's place.
C18_UnreadableFieldFails ==
    [][ \A c \in Conns :
          (HandlerActs(c) /\ Unreadable(cmd[c], FieldsRead(cmd[c]))) => Fails(c) ]_vars

----------------------------------------------------------------------------
(* C19 *)

\* A step in which the playlist handler of c acts on a command with a name
\* and an action other than FETCH.
PlaylistMutationActs(c) ==
    /\ HandlerActs(c)
    /\ cmd[c].Action = "PLAYLIST"
    /\ Mutating(cmd[c])

\* The handler has applied the mutation the Command of c asks for.
PlaylistApplied(c) ==
    /\ loop'[c] = "applied"
    /\ err'[c] = "nil"
    /\ playlists' = Append(playlists, [by |-> c, ra |-> ExpectedRepAction(cmd[c])])

\* C19 as stated: a PLAYLIST command needs only name and action; path and
\* index are optional, so a NEXT or PREV without path is applied (and then
\* answered).
C19_NextWithoutPathIsApplied ==
    [][ \A c \in Conns :
          ( /\ PlaylistMutationActs(c)
            /\ cmd[c].Data["action"].s \in {"NEXT", "PREV"}
            /\ "path" \notin DOMAIN cmd[c].Data )
          => PlaylistApplied(c) ]_vars

----------------------------------------------------------------------------
(* C21 *)

\* C21: an item is destroyed when its root is removed or its last track is
\* pruned away: after a REMOVE the playlist holds no item whose flat track
\* list is empty, whatever the length of the item's root.
C21_NoItemWithoutTracks ==
    action.actionType = "REMOVE" => AllItemsHaveTracks(items)

----------------------------------------------------------------------------
(* C22 *)

\* C22: while the loop of a connection runs and its key k is not empty, the
\* registry holds under k a player that sends to that connection, whatever
\* KEY commands the other connection handles in between; a KEY command never
\* removes or replaces the player another connection has registered.
C22_KeyLeavesOtherPlayersAlone ==
    /\ [](\A c \in Conns :
            (loop[c] = "running" /\ playerKey[c] # "") => players[playerKey[c]] = c)
    /\ [][ \A c \in Conns, k \in PlayerKeys :
             HandleKey(c, k) =>
               \A q \in PlayerKeys :
                  (players[q] # NoPlayer /\ players[q] # c) => players'[q] = players[q] ]_vars

----------------------------------------------------------------------------
(* C23 *)

\* C23: the first SEARCH a connection handles is answered with a Response,
\* whatever the search finds, an empty result list included; a SEARCH is
\* answered with nothing only relative to an earlier SEARCH of the same
\* connection.
C23_FirstSearchIsAnswered ==
    [][ \A c \in Conns :
          (SearchReturns(c) /\ ~searcher[c].searched) =>
             /\ loop'[c] = "sending"
             /\ resp'[c] = <<[Action |-> "SEARCH", Data |-> searcher'[c].paths]>> ]_vars

----------------------------------------------------------------------------
(* C24 *)

\* Path path lies under the root of item and names nothing of it: no track
\* Path of the item starts with it, and its last Key is not among the child
\* Keys recorded for its parent.
NamesNothing(item, path) ==
    /\ IsPrefix(item.root, path)
    /\ path # item.root
    /\ \A i \in 1..Len(item.tracks) : ~IsPrefix(path, FullTracks(item)[i])
    /\ LET parent == pathToKey(SubSeq(path, 1, Len(path) - 1))
       IN  parent \in DOMAIN item.data =>
             \/ item.data[parent].keys = Undefined
             \/ \A n \in 1..Len(item.data[parent].keys) :
                   item.data[parent].keys[n] # path[Len(path)]

\* C24: a REMOVE with a path under the item's root that matches no track
\* Path and no recorded child Key leaves the item's flat track list, its
\* structural sub-Paths and every recorded child-Key list (and so the whole
\* playlist) as they were; only the current position is cleared.
C24_RemoveOfNothingChangesNoItem ==
    [][ ( /\ action'.actionType = "REMOVE"
          /\ removes' = removes + 1
          /\ NamesNothing(items[action'.itemIndex + 1], action'.path) )
        => /\ items' = items
           /\ current' = NULL ]_vars

====
